---- MODULE Spec2Model ----
(***************************************************************************)
(* Model of the two bingo scripts:                                         *)
(*   make_bingo_cards.py  : main() and make_cards()   (specification Spec) *)
(*   draw_bingo_values.py : main()                 (specification DrawSpec)*)
(*                                                                         *)
(* Python lists are objects: a dict maps a key to a reference and `heap`   *)
(* maps a reference to the list's contents, so that copying a dict without *)
(* copying its lists, and mutating a list through either name, can be      *)
(* told apart.  A dict is the sequence of its <<key, reference>> items in  *)
(* insertion order.                                                        *)
(*                                                                         *)
(* random.shuffle may leave a list in any order; the model draws the order *)
(* from MaxTurn + 1 rotations of the list, spread evenly over its length,   *)
(* and of the shuffle calls made for one card at most one draws an order   *)
(* other than the one it was given.                                        *)
(* random.randint ranges over its whole interval.                          *)
(***************************************************************************)
EXTENDS Integers, Sequences, FiniteSets, TLC

VARIABLES
    args,             \* parsed command line (argparse namespace)
    pc,               \* position in the running script
    stdout,           \* lines printed so far
    colList,          \* make_bingo_cards.main: column labels or None
    spaceValuesDict,  \* make_bingo_cards.main: the pools (valuesDict)
    heap,             \* contents of the list objects the dicts refer to
    p,                \* make_cards: page index
    iAx,              \* make_cards: position in axArr.flat
    cardTextList,     \* make_cards: the grid of the card just built
    fig,              \* make_cards: tables drawn on the current figure
    pdf,              \* make_cards: the output document
    drawValuesList,   \* draw_bingo_values.main: the (label, value) pool
    drawCount,        \* draw_bingo_values.main
    drawAgain,        \* draw_bingo_values.main
    userInput         \* draw_bingo_values.main

cardVars == <<colList, spaceValuesDict, heap, p, iAx, cardTextList, fig, pdf>>
drawVars == <<drawValuesList, drawCount, drawAgain, userInput>>
vars == <<args, pc, stdout, cardVars, drawVars>>

----------------------------------------------------------------------------
(* Bounds of the inputs *)

\* nCards is drawn from 1..MaxCards
MaxCards == 2
\* a labeled value file has FileValuesPerLabel lines for each of its labels
FileValuesPerLabel == 3
\* an unlabeled value file has UnlabeledValues lines
UnlabeledValues == 9
\* a shuffle leaves its list in one of at most MaxTurn + 1 orders
MaxTurn == 4

----------------------------------------------------------------------------
(* Python values *)

None == "<None>"
FreeSpace == "<star>"          \* '☆'

\* int() of a one-digit string
int(c) == CHOOSE n \in 0..9 : ToString(n) = c

\* ceil(a / b) for a >= 0, b > 0
ceil(a, b) == (a + b - 1) \div b

\* a centre index rounded up instead of down
floor2_up(a) == (a + 1) \div 2

\* floor(a / 2)
floor2(a) == a \div 2

\* [str(x) for x in range(lo, hi)]
StrRange(lo, hi) == [i \in 1..(hi - lo) |-> ToString(lo + i - 1)]

RECURSIVE SumSeq(_)
SumSeq(s) == IF s = <<>> THEN 0 ELSE Head(s) + SumSeq(Tail(s))

\* dict helpers: d is a sequence of <<key, reference>>
Keys(d) == [i \in 1..Len(d) |-> d[i][1]]
HasKey(d, k) == \E i \in 1..Len(d) : d[i][1] = k
Ref(d, k) == d[CHOOSE i \in 1..Len(d) : d[i][1] = k][2]

----------------------------------------------------------------------------
(* Command line and value files of make_bingo_cards.py *)

CardSizes == {<<"3", "x", "3">>, <<"4", "x", "4">>, <<"5", "x", "5">>}
CardsPerPageChoices == {1, 2, 4}
\* DEFAULTS['column labels'].split(',')
DefaultColumnLabels == <<"B", "I", "N", "G", "O">>

\* The value files offered to --value-file.  A file is the list of its
\* lines and a line is the list of its '::'-separated fields, the value
\* field already stripped.
FileLabels == <<"R", "S", "T", "U", "V">>
LabeledLines(nLabels) ==
    [i \in 1..(nLabels * FileValuesPerLabel) |->
        LET a == ((i - 1) \div FileValuesPerLabel) + 1
            b == ((i - 1) % FileValuesPerLabel) + 1
        IN  <<FileLabels[a], FileLabels[a] \o ToString(b)>>]
PlainLines == [i \in 1..UnlabeledValues |-> <<"w" \o ToString(i)>>]
ValueFiles == {"empty.txt", "two_labels.txt", "five_labels.txt", "plain.txt"}
readlines(f) ==
    CASE f = "empty.txt" -> <<>>
      [] f = "two_labels.txt" -> LabeledLines(2)
      [] f = "five_labels.txt" -> LabeledLines(5)
      [] f = "plain.txt" -> PlainLines

\* the standard bingo pools: the dict
StandardDict == [i \in 1..5 |-> <<DefaultColumnLabels[i], i>>]

\* each range running one value into the next
StandardHeap_overlap == [i \in 1..5 |-> StrRange(15 * (i - 1) + 1, 15 * i + 2)]

\* the lists of the standard pools
StandardHeap == [i \in 1..5 |-> StrRange(15 * (i - 1) + 1, 15 * i + 1)]

\* the loop that files each labeled line under its label
RECURSIVE LoadLabeled(_, _, _)
LoadLabeled(lines, d, h) ==
    IF lines = <<>> THEN [dict |-> d, heap |-> h]
    ELSE LET label == Head(lines)[1]
             value == Head(lines)[2]
         IN  IF ~HasKey(d, label)
             THEN LoadLabeled(Tail(lines), Append(d, <<label, Len(h) + 1>>),
                              Append(h, <<value>>))
             ELSE LoadLabeled(Tail(lines), d,
                              [h EXCEPT ![Ref(d, label)] = Append(@, value)])

\* the loop that appends every unlabeled line to the list of key None
LoadPlain(lines) ==
    [dict |-> <<<<None, 1>>>>,
     heap |-> <<[i \in 1..Len(lines) |-> lines[i][1]]>>]

nRows == int(args.card_size[1])
nCols == int(args.card_size[Len(args.card_size)])

CardArgs ==
    { [nCards |-> n, card_size |-> cs, cards_per_page |-> cpp,
       column_labels |-> cl, column_labels_off |-> off,
       no_free |-> nf, scatter |-> sc, value_file |-> vf] :
        n \in 1..MaxCards, cs \in CardSizes, cpp \in CardsPerPageChoices,
        cl \in {DefaultColumnLabels} \cup
               {SubSeq(DefaultColumnLabels, 1, k) : k \in 3..5},
        off \in BOOLEAN, nf \in BOOLEAN, sc \in BOOLEAN,
        vf \in {None} \cup ValueFiles }

NoPdf == [state |-> "none", pages |-> <<>>]

Init ==
    /\ args \in { a \in CardArgs :
                    \* --column-labels and --column-labels-off exclude each
                    \* other; a label list is the default or fits the card
                    /\ a.column_labels_off => a.column_labels = DefaultColumnLabels
                    /\ Len(a.column_labels) \in {5, int(a.card_size[3])} }
    /\ pc = "labels"
    /\ stdout = <<>>
    /\ colList = None
    /\ spaceValuesDict = <<>>
    /\ heap = <<>>
    /\ p = 0
    /\ iAx = 0
    /\ cardTextList = <<>>
    /\ fig = 0
    /\ pdf = NoPdf
    /\ drawValuesList = <<>>
    /\ drawCount = 0
    /\ drawAgain = TRUE
    /\ userInput = ""

\* main, lines 272-281: the list of column labels
MainColumnLabels ==
    /\ pc = "labels"
    /\ colList' = IF args.column_labels_off THEN None
                  ELSE IF nCols # Len(args.column_labels) THEN None
                  ELSE args.column_labels
    /\ pc' = "load"
    /\ UNCHANGED <<args, stdout, spaceValuesDict, heap, p, iAx, cardTextList,
                   fig, pdf, drawVars>>

\* lines 287-322: spaceValuesDict and its lists, for the standard pools
\* or a value file that is not empty
spaceValues(a) ==
    IF a.value_file = None
    THEN [dict |-> StandardDict, heap |-> StandardHeap]
    ELSE LET spaceLinesList == readlines(a.value_file)
             useLabels == Len(spaceLinesList[1]) > 1
         IN  IF useLabels
             THEN LoadLabeled(spaceLinesList, <<>>, <<>>)
             ELSE LoadPlain(spaceLinesList)

\* main, lines 287-322: the pools, built in or read from the value file
MainLoadValues ==
    /\ pc = "load"
    /\ IF args.value_file # None /\ readlines(args.value_file) = <<>>
       THEN \* raise ValueError
            /\ pc' = "raised"
            /\ UNCHANGED <<spaceValuesDict, heap>>
       ELSE LET loaded == spaceValues(args)
            IN  /\ spaceValuesDict' = loaded.dict
                /\ heap' = loaded.heap
                /\ pc' = "check"
    /\ UNCHANGED <<args, stdout, colList, p, iAx, cardTextList, fig, pdf,
                   drawVars>>

LabelErrMsg == <<"ERROR: The number of columns labels is less than the number of columns on the cards.">>

\* the deletion list started one key too late
keyDeleteList_late(d, nc) == {q \in 1..Len(d) : (q - 1) > nc}

\* the key positions main collects for deletion: enumerate's i is one
\* less than the position q
keyDeleteList(d, nc) == {q \in 1..Len(d) : ((q - 1) + 1) > nc}

\* positions 1..n of d that are not in del, in order
RECURSIVE KeptPositions(_, _)
KeptPositions(n, del) ==
    IF n = 0 THEN <<>>
    ELSE IF n \in del THEN KeptPositions(n - 1, del)
    ELSE Append(KeptPositions(n - 1, del), n)

\* del spaceValuesDict[k] for every collected key; the lists of the
\* deleted keys are no longer referred to and leave the heap
DeleteKeys(d, h, del) ==
    LET keep == KeptPositions(Len(d), del)
    IN  [dict |-> [i \in 1..Len(keep) |-> <<d[keep[i]][1], i>>],
         heap |-> [i \in 1..Len(keep) |-> h[d[keep[i]][2]]]]

\* main, lines 324-341: the number of keys against the number of columns
MainCheckLabels ==
    /\ pc = "check"
    /\ IF ~HasKey(spaceValuesDict, None)
       THEN IF Len(spaceValuesDict) > nCols
            THEN LET after == DeleteKeys(spaceValuesDict, heap,
                                         keyDeleteList(spaceValuesDict, nCols))
                 IN  /\ spaceValuesDict' = after.dict
                     /\ heap' = after.heap
                     /\ pc' = "make_cards"
                     /\ UNCHANGED stdout
            ELSE IF Len(spaceValuesDict) < nCols
            THEN /\ stdout' = Append(stdout, LabelErrMsg)
                 /\ pc' = "returned"
                 /\ UNCHANGED <<spaceValuesDict, heap>>
            ELSE /\ pc' = "make_cards"
                 /\ UNCHANGED <<spaceValuesDict, heap, stdout>>
       ELSE /\ pc' = "make_cards"
            /\ UNCHANGED <<spaceValuesDict, heap, stdout>>
    /\ UNCHANGED <<args, colList, p, iAx, cardTextList, fig, pdf, drawVars>>

----------------------------------------------------------------------------
(* make_cards *)

pageLayoutDict(n) == CASE n = 1 -> <<1, 1>> [] n = 2 -> <<2, 1>> [] n = 4 -> <<2, 2>>

nPages == ceil(args.nCards, args.cards_per_page)
\* the number of axes of a page: len(axArr.flat)
nAxes == pageLayoutDict(args.cards_per_page)[1] * pageLayoutDict(args.cards_per_page)[2]
useFreeSpace == ~args.no_free
useColumnLabels == colList # None
\* the keys of valuesDict whatever scatter says
colIter_keys == Keys(spaceValuesDict)

\* lines 82-88: a view of the keys of valuesDict, or nCols times None
colIter == IF args.scatter THEN [i \in 1..nCols |-> None] ELSE Keys(spaceValuesDict)

\* a copy of the dict alone, which still refers to the lists of d
deepcopy_shallow(d, h) == [dict |-> d, heap |-> h]

\* copy.deepcopy of a dict of lists: a new dict that refers to new lists
deepcopy(d, h) ==
    [dict |-> [i \in 1..Len(d) |-> <<d[i][1], Len(h) + i>>],
     heap |-> h \o [i \in 1..Len(d) |-> h[d[i][2]]]]

\* s turned left by k places
Rot(s, k) == SubSeq(s, k + 1, Len(s)) \o SubSeq(s, 1, k)

\* the places between two orders a shuffle can draw for a list of length n
Stride(n) == IF n = 0 THEN 1 ELSE ceil(n, MaxTurn + 1)

\* random.shuffle(s) under the random draw k: the order it leaves s in
shuffle(s, k) == Rot(s, (k * Stride(Len(s))) % (IF s = <<>> THEN 1 ELSE Len(s)))

\* the random draws of one shuffle call on a list of length n
TurnDraws(n) == {k \in 0..MaxTurn : k = 0 \/ k * Stride(n) < n}

\* the random draws of the shuffle calls on lists of the lengths lens,
\* one draw for each call: at most one call draws another order
ShuffleDraws(lens) ==
    LET zero == [c \in 1..Len(lens) |-> 0]
    IN  {zero} \cup UNION {{[zero EXCEPT ![c] = k] : k \in TurnDraws(lens[c]) \ {0}} :
                             c \in 1..Len(lens)}

\* shuffle called on the lists refs[c], from call c on, with the draws ks
RECURSIVE ShuffleLists(_, _, _, _)
ShuffleLists(h, refs, ks, c) ==
    IF c > Len(refs) THEN h
    ELSE ShuffleLists([h EXCEPT ![refs[c]] = shuffle(@, ks[c])], refs, ks, c + 1)

RECURSIVE Extend(_, _, _, _)
\* for k in valuesDict: target.extend(valuesDict[k]), from key position i on
Extend(h, target, vd, i) ==
    IF i > Len(vd) THEN h
    ELSE Extend([h EXCEPT ![target] = @ \o h[vd[i][2]]], target, vd, i + 1)

\* the lengths of the lists that lines 107-124 shuffle, in call order
ShuffledLengths(vd, h, scatter) ==
    IF scatter
    THEN IF HasKey(vd, None) THEN <<Len(h[Ref(vd, None)])>>
         ELSE <<SumSeq([i \in 1..Len(vd) |-> Len(h[vd[i][2]])])>>
    ELSE [i \in 1..Len(vd) |-> Len(h[vd[i][2]])]

\* lines 106-124: the working copy of the pools, shuffled with the draws ks
ShuffledCopy(vd, h, scatter, ks) ==
    LET c == deepcopy(vd, h)
    IN  IF scatter
        THEN IF HasKey(c.dict, None)
             THEN [dict |-> c.dict,
                   heap |-> ShuffleLists(c.heap, <<Ref(c.dict, None)>>, ks, 1)]
             ELSE LET new == Len(c.heap) + 1
                      d2 == Append(c.dict, <<None, new>>)
                      h2 == Extend(Append(c.heap, <<>>), new, vd, 1)
                  IN  [dict |-> d2, heap |-> ShuffleLists(h2, <<new>>, ks, 1)]
        ELSE [dict |-> c.dict,
              heap |-> ShuffleLists(c.heap,
                           [i \in 1..Len(vd) |-> Ref(c.dict, vd[i][1])], ks, 1)]

\* the last entry read and left in the list
pop_peek(s) == [value |-> s[Len(s)], rest |-> s]

\* list.pop() of a list that is not empty
pop(s) == [value |-> s[Len(s)], rest |-> SubSeq(s, 1, Len(s) - 1)]

\* lines 134-137: n times cardTextDict[iCol].append(shuffleDict[row].pop());
\* ok is FALSE when a pop finds its list empty (IndexError)
RECURSIVE FillColumn(_, _, _, _)
FillColumn(col, h, ref, n) ==
    IF n = 0 THEN [ok |-> TRUE, col |-> col, heap |-> h]
    ELSE IF h[ref] = <<>> THEN [ok |-> FALSE, col |-> col, heap |-> h]
    ELSE LET r == pop(h[ref])
         IN  FillColumn(Append(col, r.value), [h EXCEPT ![ref] = r.rest], ref, n - 1)

\* lines 126-137: the columns of the card, from column position iCol on
RECURSIVE FillCard(_, _, _, _, _, _, _)
FillCard(ctd, h, sd, cols, labels, nr, iCol) ==
    IF iCol > Len(cols) THEN [ok |-> TRUE, cardTextDict |-> ctd, heap |-> h]
    ELSE IF labels # None /\ iCol > Len(labels)
    THEN [ok |-> FALSE, cardTextDict |-> ctd, heap |-> h]
    ELSE IF ~HasKey(sd, cols[iCol])
    THEN [ok |-> FALSE, cardTextDict |-> ctd, heap |-> h]
    ELSE LET first == IF labels # None THEN <<labels[iCol]>> ELSE <<>>
             c == FillColumn(first, h, Ref(sd, cols[iCol]), nr)
         IN  IF ~c.ok THEN [ok |-> FALSE, cardTextDict |-> ctd, heap |-> c.heap]
             ELSE FillCard(Append(ctd, c.col), c.heap, sd, cols, labels, nr, iCol + 1)

\* lines 142-150: the rows of the card as they are printed
Transpose(ctd, nRowsPrinted) ==
    [iRow \in 1..nRowsPrinted |-> [k \in 1..Len(ctd) |-> ctd[k][iRow]]]

\* the row index without the shift below the label row
FreeRows_unshifted(nr, labels) ==
    IF (nr % 2) # 0 THEN {floor2(nr)} ELSE 0..(nr - 1)

\* lines 154-168: the row and the column index (from 0) of the free space
FreeRows(nr, labels) ==
    {r + (IF labels THEN 1 ELSE 0) :
        r \in IF (nr % 2) # 0 THEN {floor2(nr)} ELSE 0..(nr - 1)}
FreeCols(nc) == IF (nc % 2) # 0 THEN {floor2(nc)} ELSE 0..(nc - 1)

\* the source lists, as the card's construction leaves them
SourceLists(h, n) == SubSeq(h, 1, n)

ClosedPdf == [pdf EXCEPT !.state = "closed"]

\* lines 91: with PdfPages(outFile) as pdf
MakeCardsEnter ==
    /\ pc = "make_cards"
    /\ pdf' = [state |-> "open", pages |-> <<>>]
    /\ p' = 0
    /\ pc' = "page"
    /\ UNCHANGED <<args, stdout, colList, spaceValuesDict, heap, iAx,
                   cardTextList, fig, drawVars>>

\* lines 93-98: the figure of page p
StartPage ==
    /\ pc = "page"
    /\ p < nPages
    /\ fig' = 0
    /\ iAx' = 0
    /\ pc' = "card"
    /\ UNCHANGED <<args, stdout, colList, spaceValuesDict, heap, p,
                   cardTextList, pdf, drawVars>>

\* lines 100-169: the values of the card of the next axes
BuildCard ==
    /\ pc = "card"
    /\ iAx < nAxes
    /\ \E ks \in ShuffleDraws(ShuffledLengths(spaceValuesDict, heap, args.scatter)) :
          LET sh == ShuffledCopy(spaceValuesDict, heap, args.scatter, ks)
              filled == FillCard(<<>>, sh.heap, sh.dict, colIter, colList, nRows, 1)
              nRowsPrinted == IF useColumnLabels THEN nRows + 1 ELSE nRows
              text == Transpose(filled.cardTextDict, nRowsPrinted)
          IN  /\ heap' = SourceLists(filled.heap, Len(heap))
              /\ IF ~filled.ok
                 THEN \* IndexError / KeyError leaves the with block
                      /\ pc' = "raised"
                      /\ pdf' = ClosedPdf
                      /\ UNCHANGED cardTextList
                 ELSE IF ~useFreeSpace
                 THEN /\ cardTextList' = text
                      /\ pc' = "table"
                      /\ UNCHANGED pdf
                 ELSE \E iRowFree \in FreeRows(nRows, useColumnLabels) :
                      \E iColFree \in FreeCols(nCols) :
                         IF iColFree + 1 > Len(text[iRowFree + 1])
                         THEN \* IndexError
                              /\ pc' = "raised"
                              /\ pdf' = ClosedPdf
                              /\ UNCHANGED cardTextList
                         ELSE /\ cardTextList' =
                                    [text EXCEPT ![iRowFree + 1][iColFree + 1] = FreeSpace]
                              /\ pc' = "table"
                              /\ UNCHANGED pdf
    /\ UNCHANGED <<args, stdout, colList, spaceValuesDict, p, iAx, fig, drawVars>>

\* lines 171-199: the table of the card on its axes; the next iteration
\* starts from an empty cardTextList
AddTable ==
    /\ pc = "table"
    /\ fig' = fig + 1
    /\ iAx' = iAx + 1
    /\ cardTextList' = <<>>
    /\ pc' = "card"
    /\ UNCHANGED <<args, stdout, colList, spaceValuesDict, heap, p, pdf, drawVars>>

\* lines 203-206: the page goes into the document
SavePage ==
    /\ pc = "card"
    /\ iAx = nAxes
    /\ pdf' = [pdf EXCEPT !.pages = Append(@, fig)]
    /\ p' = p + 1
    /\ pc' = "page"
    /\ UNCHANGED <<args, stdout, colList, spaceValuesDict, heap, iAx,
                   cardTextList, fig, drawVars>>

\* the page loop ends, the with block closes the document, main returns
MakeCardsReturn ==
    /\ pc = "page"
    /\ p >= nPages
    /\ pdf' = ClosedPdf
    /\ pc' = "done"
    /\ UNCHANGED <<args, stdout, colList, spaceValuesDict, heap, p, iAx,
                   cardTextList, fig, drawVars>>

Next ==
    \/ MainColumnLabels
    \/ MainLoadValues
    \/ MainCheckLabels
    \/ MakeCardsEnter
    \/ StartPage
    \/ BuildCard
    \/ AddTable
    \/ SavePage
    \/ MakeCardsReturn

Spec == Init /\ [][Next]_vars

----------------------------------------------------------------------------
(* draw_bingo_values.py *)

\* --card-size and --value-file exclude each other
DrawArgs ==
    { [card_size |-> cs, value_file |-> None, ignore_column |-> ic] :
        cs \in CardSizes, ic \in BOOLEAN }
    \cup
    { [card_size |-> <<"5", "x", "5">>, value_file |-> vf, ignore_column |-> ic] :
        vf \in ValueFiles, ic \in BOOLEAN }

\* what the operator may type at a prompt
InputLines == {"", "q", "Q", "x", "quit"}

\* the input line compared as it was typed
lower_asis(line) == line

\* str.lower() on the input lines
lower(line) == CASE line = "Q" -> "q" [] OTHER -> line

\* del d[k] for every key of dels
DeleteLabels(d, h, dels) ==
    DeleteKeys(d, h, {q \in 1..Len(d) : d[q][1] \in dels})

\* lines 50-91: drawValuesDict
drawValuesDict(a) ==
    IF a.value_file = None
    THEN IF a.card_size = <<"3", "x", "3">>
         THEN DeleteLabels(StandardDict, StandardHeap, {"G", "O"})
         ELSE IF a.card_size = <<"4", "x", "4">>
         THEN DeleteLabels(StandardDict, StandardHeap, {"O"})
         ELSE [dict |-> StandardDict, heap |-> StandardHeap]
    ELSE LET drawLinesList == readlines(a.value_file)
         IN  IF Len(drawLinesList[1]) > 1
             THEN LoadLabeled(drawLinesList, <<>>, <<>>)
             ELSE LoadPlain(drawLinesList)

DrawValue_t(label, value) == [label |-> label, value |-> value]

\* lines 101-103: the entries of the labels from key position i on
RECURSIVE FlattenLabels(_, _, _)
FlattenLabels(d, h, i) ==
    IF i > Len(d) THEN <<>>
    ELSE [j \in 1..Len(h[d[i][2]]) |-> DrawValue_t(d[i][1], h[d[i][2]][j])]
         \o FlattenLabels(d, h, i + 1)

\* lines 93-103: all values in a single list
Flatten(d, h) ==
    IF HasKey(d, None)
    THEN [j \in 1..Len(h[Ref(d, None)]) |-> DrawValue_t("", h[Ref(d, None)][j])]
    ELSE FlattenLabels(d, h, 1)

sayColumns == ~args.ignore_column

Banner == <<"Enter Q or q to quit.">>
AllDrawnMsg == <<"All the values have been drawn.">>

\* the line numbered with the count of the draws before it
DrawLine_before(n, v, cols) ==
    IF cols THEN <<ToString(n - 1) \o ")", v.label, v.value>>
    ELSE <<ToString(n - 1) \o ")", v.value>>

\* lines 115-118: the line that shows a drawn value
DrawLine(n, v, cols) ==
    IF cols THEN <<ToString(n) \o ")", v.label, v.value>>
    ELSE <<ToString(n) \o ")", v.value>>

DrawInit ==
    /\ args \in DrawArgs
    /\ pc = "draw_load"
    /\ stdout = <<>>
    /\ colList = None
    /\ spaceValuesDict = <<>>
    /\ heap = <<>>
    /\ p = 0
    /\ iAx = 0
    /\ cardTextList = <<>>
    /\ fig = 0
    /\ pdf = NoPdf
    /\ drawValuesList = <<>>
    /\ drawCount = 0
    /\ drawAgain = TRUE
    /\ userInput = ""

\* lines 49-103: the values to draw from, in a single list
DrawLoadValues ==
    /\ pc = "draw_load"
    /\ IF args.value_file # None /\ readlines(args.value_file) = <<>>
       THEN \* raise ValueError
            /\ pc' = "raised"
            /\ UNCHANGED drawValuesList
       ELSE LET d == drawValuesDict(args)
            IN  /\ drawValuesList' = Flatten(d.dict, d.heap)
                /\ pc' = "draw_shuffle"
    /\ UNCHANGED <<args, stdout, cardVars, drawCount, drawAgain, userInput>>

\* lines 105-111: shuffle, the counters and the banner
DrawShuffle ==
    /\ pc = "draw_shuffle"
    /\ \E k \in TurnDraws(Len(drawValuesList)) :
          drawValuesList' = shuffle(drawValuesList, k)
    /\ drawCount' = 0
    /\ drawAgain' = TRUE
    /\ stdout' = Append(stdout, Banner)
    /\ pc' = "loop"
    /\ UNCHANGED <<args, cardVars, userInput>>

\* lines 112-118: one more value is drawn and shown
Draw ==
    /\ pc = "loop"
    /\ drawValuesList # <<>> /\ drawAgain
    /\ drawCount' = drawCount + 1
    /\ LET r == pop(drawValuesList)
       IN  /\ drawValuesList' = r.rest
           /\ stdout' = Append(stdout, DrawLine(drawCount', r.value, sayColumns))
    /\ pc' = "input"
    /\ UNCHANGED <<args, cardVars, drawAgain, userInput>>

\* lines 119-121: the operator's answer
ReadInput ==
    /\ pc = "input"
    /\ \E line \in InputLines :
          /\ userInput' = line
          /\ drawAgain' = IF lower(line) = "q" THEN FALSE ELSE drawAgain
    /\ pc' = "loop"
    /\ UNCHANGED <<args, stdout, cardVars, drawValuesList, drawCount>>

\* the test of the empty pool alone
AllDrawn_anyway(list, again) == list = <<>>

\* line 122: (not drawValuesList) and drawAgain
AllDrawn(list, again) == list = <<>> /\ again

\* lines 122-125: the loop is left
DrawEnd ==
    /\ pc = "loop"
    /\ ~(drawValuesList # <<>> /\ drawAgain)
    /\ stdout' = IF AllDrawn(drawValuesList, drawAgain)
                 THEN Append(stdout, AllDrawnMsg) ELSE stdout
    /\ pc' = "done"
    /\ UNCHANGED <<args, cardVars, drawVars>>

DrawNext ==
    \/ DrawLoadValues
    \/ DrawShuffle
    \/ Draw
    \/ ReadInput
    \/ DrawEnd

DrawSpec == DrawInit /\ [][DrawNext]_vars

----------------------------------------------------------------------------
(* Properties of the card generator, checked under Spec *)

Range(s) == {s[i] : i \in 1..Len(s)}

\* a card has been built and not yet drawn on its axes
CardBuilt == pc = "table"

\* the rows of the card that hold card values
DataRows == IF useColumnLabels THEN Tail(cardTextList) ELSE cardTextList
\* the cells of the data rows, as <<row, column>> from 0
DataCells == {<<r, c>> : r \in 0..(Len(DataRows) - 1), c \in 0..(Len(DataRows[1]) - 1)}
CellAt(rc) == DataRows[rc[1] + 1][rc[2] + 1]
FreeCells == {rc \in DataCells : CellAt(rc) = FreeSpace}

\* the values of the source pools
PoolValues == UNION {Range(heap[spaceValuesDict[i][2]]) : i \in 1..Len(spaceValuesDict)}

\* the pools as main hands them to make_cards
PassedPools ==
    LET loaded == spaceValues(args)
    IN  IF ~HasKey(loaded.dict, None) /\ Len(loaded.dict) > nCols
        THEN DeleteKeys(loaded.dict, loaded.heap, keyDeleteList(loaded.dict, nCols))
        ELSE loaded

\* C1: on every card built, each cell that is neither the free space nor a
\* column label holds a value of the source pools, and no value is in two
\* cells of the card.
C1_CardValuesDistinct ==
    CardBuilt =>
        LET cells == DataCells \ FreeCells
            values == {CellAt(rc) : rc \in cells}
        IN  /\ values \subseteq PoolValues
            /\ Cardinality(values) = Cardinality(cells)

\* a 4x4 card scattered from labeled pools, with its free space
C1_Witness ==
    /\ CardBuilt /\ args.scatter /\ useFreeSpace /\ nCols = 4
    /\ ~HasKey(spaceValuesDict, None)
    /\ Cardinality(DataCells \ FreeCells) = 15

\* C2: the document written for nCards cards holds exactly nCards grids,
\* on ceil(nCards / cardsPerPage) pages of at most cardsPerPage grids each.
C2_GridCount ==
    pc = "done" =>
        /\ SumSeq(pdf.pages) = args.nCards
        /\ Len(pdf.pages) = ceil(args.nCards, args.cards_per_page)
        /\ \A i \in 1..Len(pdf.pages) : pdf.pages[i] <= args.cards_per_page

\* C3: every grid built for an RxC card has C columns in each row and R
\* rows of card values, below one row of labels when labels are used.
C3_GridShape ==
    CardBuilt =>
        /\ Len(cardTextList) = (IF useColumnLabels THEN nRows + 1 ELSE nRows)
        /\ Len(DataRows) = nRows
        /\ \A r \in 1..Len(cardTextList) : Len(cardTextList[r]) = nCols
        /\ useColumnLabels => cardTextList[1] = colList

\* C7: once make_cards runs, the pools it was given are the pools main
\* passed: same keys in the same order, each with the same values in the
\* same order, whatever cards have been built.
C7_PoolsUntouched ==
    pdf.state # "none" =>
        LET passed == PassedPools
        IN  /\ spaceValuesDict = passed.dict
            /\ heap = passed.heap

\* the second card of a page, built column by column from labeled pools
C7_Witness ==
    /\ CardBuilt /\ iAx >= 1 /\ ~args.scatter
    /\ ~HasKey(spaceValuesDict, None)
    /\ heap # <<>>

\* C8: on a card of odd size built with the free space on, exactly one
\* cell holds the free space, and it is the centre data cell.
C8_FreeCentre ==
    (CardBuilt /\ useFreeSpace /\ (nRows % 2) = 1) =>
        /\ FreeCells = {<<nRows \div 2, nCols \div 2>>}
        /\ \A c \in 1..Len(cardTextList[1]) :
              useColumnLabels => cardTextList[1][c] # FreeSpace

\* a labeled 3x3 card with its free space
C8_Witness ==
    /\ CardBuilt /\ useFreeSpace /\ nRows = 3 /\ useColumnLabels
    /\ CellAt(<<1, 1>>) = FreeSpace

\* C9 as claimed, for the cards of four columns: on a 4x4 card the free
\* space is in one data cell whose row and column are both among the two
\* central indices 1 and 2.
C9_FreeAmongCentre ==
    (CardBuilt /\ useFreeSpace /\ (nRows % 2) = 0 /\ Len(DataRows[1]) = nCols) =>
        /\ Cardinality(FreeCells) = 1
        /\ \A rc \in FreeCells : rc[1] \in {1, 2} /\ rc[2] \in {1, 2}

\* C9: on a 4x4 card built with the free space on, exactly one cell holds
\* the free space; it is a data cell, of any row and any column of the
\* card, and the label row never holds it.
C9_FreeAnyDataCell ==
    (CardBuilt /\ useFreeSpace /\ (nRows % 2) = 0) =>
        /\ Cardinality(FreeCells) = 1
        /\ \A rc \in FreeCells : rc[1] \in 0..(nRows - 1) /\ rc[2] \in 0..(nCols - 1)
        /\ \A c \in 1..Len(cardTextList[1]) :
              useColumnLabels => cardTextList[1][c] # FreeSpace

\* a labeled 4x4 card with the free space in a corner
C9_Witness ==
    /\ CardBuilt /\ useFreeSpace /\ nRows = 4 /\ useColumnLabels
    /\ Len(DataRows[1]) = 4
    /\ CellAt(<<3, 0>>) = FreeSpace

\* C10: with labeled pools, more labels than columns leaves make_cards
\* the first nCols labels, in order and with their values; fewer labels
\* than columns prints the error, never calls make_cards and writes no
\* document.
C10_LabelsAgainstColumns ==
    LET loaded == spaceValues(args)
        n == Len(loaded.dict)
    IN  (/\ pc \notin {"labels", "load", "check"}
         /\ ~(args.value_file # None /\ readlines(args.value_file) = <<>>)
         /\ ~HasKey(loaded.dict, None)) =>
            /\ n > nCols =>
                  /\ pc # "returned"
                  /\ Keys(spaceValuesDict) = SubSeq(Keys(loaded.dict), 1, nCols)
                  /\ \A i \in 1..nCols :
                        heap[spaceValuesDict[i][2]] = loaded.heap[loaded.dict[i][2]]
            /\ n < nCols =>
                  /\ pc = "returned"
                  /\ stdout = <<LabelErrMsg>>
                  /\ pdf = NoPdf

\* the five labels of a value file cut to the four columns of the card
C10_Witness ==
    /\ pc = "make_cards" /\ args.value_file = "five_labels.txt" /\ nCols = 4
    /\ Keys(spaceValuesDict) = <<"R", "S", "T", "U">>

\* the number of values in all the lists of the dict d
TotalValues(d, h) == SumSeq([i \in 1..Len(d) |-> Len(h[d[i][2]])])
\* no list of d is empty, none holds a value twice, no two share a value
ColumnsDisjoint(d, h) ==
    /\ \A i \in 1..Len(d) :
          /\ h[d[i][2]] # <<>>
          /\ Cardinality(Range(h[d[i][2]])) = Len(h[d[i][2]])
    /\ \A i, j \in 1..Len(d) :
          i < j => Range(h[d[i][2]]) \cap Range(h[d[j][2]]) = {}
\* the built-in pools of the draw script for the card size of this run
BuiltInDrawPools ==
    drawValuesDict([card_size |-> args.card_size, value_file |-> None,
                    ignore_column |-> FALSE])
\* main has settled the built-in pools it passes to make_cards
BuiltInSettled == pc \notin {"labels", "load", "check"} /\ args.value_file = None

\* C11 as claimed: the built-in pools of a card of S rows and S columns
\* hold S * S values in all (9, 16, 25), in the columns B,I,N / B,I,N,G /
\* B,I,N,G,O, none of them empty and no value in two columns.
C11_PoolSquare ==
    BuiltInSettled =>
        LET draw == BuiltInDrawPools
        IN  /\ Keys(spaceValuesDict) = SubSeq(DefaultColumnLabels, 1, nCols)
            /\ Keys(draw.dict) = SubSeq(DefaultColumnLabels, 1, nCols)
            /\ TotalValues(spaceValuesDict, heap) = nRows * nCols
            /\ TotalValues(draw.dict, draw.heap) = nRows * nCols
            /\ ColumnsDisjoint(spaceValuesDict, heap)
            /\ ColumnsDisjoint(draw.dict, draw.heap)

\* C11: the built-in pools of a card of S columns, in the card generator
\* once the labels are reconciled and in the draw script, are the columns
\* B,I,N / B,I,N,G / B,I,N,G,O with the 15 values of the standard card in
\* each: 15 * S values in all (45, 60, 75), no column empty and no value in
\* two columns.
C11_PoolFifteenPerColumn ==
    BuiltInSettled =>
        LET draw == BuiltInDrawPools
        IN  /\ Keys(spaceValuesDict) = SubSeq(DefaultColumnLabels, 1, nCols)
            /\ Keys(draw.dict) = SubSeq(DefaultColumnLabels, 1, nCols)
            /\ \A i \in 1..nCols :
                  /\ Len(heap[spaceValuesDict[i][2]]) = 15
                  /\ draw.heap[draw.dict[i][2]] = heap[spaceValuesDict[i][2]]
            /\ TotalValues(spaceValuesDict, heap) = 15 * nCols
            /\ TotalValues(draw.dict, draw.heap) = 15 * nCols
            /\ ColumnsDisjoint(spaceValuesDict, heap)
            /\ ColumnsDisjoint(draw.dict, draw.heap)

\* the built-in pools cut to the three columns of a 3x3 card
C11_Witness ==
    /\ pc = "make_cards" /\ args.value_file = None /\ nCols = 3
    /\ Keys(spaceValuesDict) = <<"B", "I", "N">>
    /\ TotalValues(spaceValuesDict, heap) = 45

\* the values of the P-th source pool, in insertion order of the keys
PoolOf(P) == Range(heap[spaceValuesDict[P][2]])
\* the pools are labeled: no key None
Labeled == spaceValuesDict # <<>> /\ ~HasKey(spaceValuesDict, None)
\* the first printed row that holds card values
FirstDataRow == IF useColumnLabels THEN 2 ELSE 1

\* the grid that lines 100-150 give under the shuffle draws ks: the rows
\* as printed, or <<>> when a pop finds its list empty
ShuffledGrid(ks) ==
    LET sh == ShuffledCopy(spaceValuesDict, heap, args.scatter, ks)
        filled == FillCard(<<>>, sh.heap, sh.dict, colIter, colList, nRows, 1)
    IN  IF ~filled.ok THEN <<>>
        ELSE Transpose(filled.cardTextDict,
                       IF useColumnLabels THEN nRows + 1 ELSE nRows)
\* the random draws of the shuffle of one card
CardDraws == ShuffleDraws(ShuffledLengths(spaceValuesDict, heap, args.scatter))
\* the cells, as <<printed row, column>> from 1, the free space can take
FreePositions ==
    IF ~useFreeSpace THEN {}
    ELSE {<<iRowFree + 1, iColFree + 1>> :
             iRowFree \in FreeRows(nRows, useColumnLabels),
             iColFree \in FreeCols(nCols)}
\* text with its cell f given to the free space, when there is one
WithFreeSpace(text, f) ==
    IF f = <<>> THEN text ELSE [text EXCEPT ![f[1]][f[2]] = FreeSpace]

\* C12, scatter on: a card built from labeled pools is one of the cards the
\* random draws give, and whenever a card is to be built from labeled pools
\* that hold the values of a whole card, every pool gives a value to every
\* column of it under some random draw.
C12_ScatterAnyPoolAnyColumn ==
    /\ (CardBuilt /\ args.scatter /\ Labeled) =>
          \E ks \in CardDraws :
              LET text == ShuffledGrid(ks)
              IN  IF useFreeSpace
                  THEN \E f \in FreePositions :
                          /\ cardTextList[f[1]][f[2]] = FreeSpace
                          /\ cardTextList = WithFreeSpace(text, f)
                  ELSE cardTextList = text
    /\ (/\ pc = "card" /\ iAx < nAxes /\ args.scatter /\ Labeled
        /\ TotalValues(spaceValuesDict, heap) >= nRows * nCols) =>
          LET grids == {ShuffledGrid(ks) : ks \in CardDraws} \ {<<>>}
              pools == [P \in 1..Len(spaceValuesDict) |-> PoolOf(P)]
              free == FreePositions
          IN  /\ grids # {}
              /\ \A P \in 1..Len(spaceValuesDict) : \A c \in 1..nCols :
                    \E text \in grids : \E r \in FirstDataRow..Len(text) :
                        /\ text[r][c] \in pools[P]
                        /\ useFreeSpace => \E f \in free : f # <<r, c>>

\* C12, scatter off: column c of every card built holds only values of the
\* c-th pool in insertion order.
C12_ColumnFromOwnPool ==
    (CardBuilt /\ ~args.scatter) =>
        \A rc \in DataCells \ FreeCells : CellAt(rc) \in PoolOf(rc[2] + 1)

\* C12: with scatter on and labeled pools, every pool can give a value to
\* every column of a card; with scatter off, each column of a card holds
\* only values of the pool of the same position.
C12_ScatterOrOwnPool ==
    /\ C12_ScatterAnyPoolAnyColumn
    /\ C12_ColumnFromOwnPool

\* a scattered card whose first column holds a value of the first pool and
\* whose last column holds a value of the last pool
C12_Witness ==
    /\ CardBuilt /\ args.scatter /\ Labeled /\ Len(DataRows[1]) = nCols
    /\ \E r \in 0..(nRows - 1) : CellAt(<<r, 0>>) \in PoolOf(1)
    /\ \E r \in 0..(nRows - 1) : CellAt(<<r, nCols - 1>>) \in PoolOf(nCols)

----------------------------------------------------------------------------
(* Properties of the draw script, checked under DrawSpec *)

\* the pool of (label, value) entries, as loaded
Pool == Flatten(drawValuesDict(args).dict, drawValuesDict(args).heap)

\* the draw loop has been entered
Drawing == pc \in {"loop", "input", "done"}

\* what a draw line shows of the entry e: its label, unless columns are
\* ignored, and its value
Shown(e) == IF sayColumns THEN <<e.label, e.value>> ELSE <<e.value>>
\* what the i-th line printed after the banner shows, after its counter
ShownBy(i) == Tail(stdout[i + 1])
ShownEntries == {ShownBy(i) : i \in 1..drawCount}
NoticeShown == \E i \in 1..Len(stdout) : stdout[i] = AllDrawnMsg
Quit == userInput \in {"q", "Q"}

\* C4: the lines of the draws carry the counter 1, 2, ... in this order, no
\* entry of the pool is shown twice, and a run in which q is never entered
\* ends after as many draws as the pool has entries, each shown once.
C4_DrawsAll ==
    Drawing =>
        LET pool == Pool
            entries == {Shown(pool[j]) : j \in 1..Len(pool)}
            shown == ShownEntries
        IN  /\ Len(stdout) >= drawCount + 1
            /\ \A i \in 1..drawCount : stdout[i + 1][1] = ToString(i) \o ")"
            /\ shown \subseteq entries
            /\ Cardinality(shown) = drawCount
            /\ (pc = "done" /\ drawAgain) =>
                  /\ drawCount = Len(pool)
                  /\ shown = entries

\* the standard 3x3 pool drawn to its end
C4_Witness ==
    /\ pc = "done" /\ drawAgain /\ args.value_file = None
    /\ drawCount = 45 /\ userInput = "x"

\* C5: q or Q at the prompt after the k-th draw ends the run with k draws
\* shown and the other entries still in the pool, not shown; any other
\* input lets the next draw take place.
C5_QuitStops ==
    /\ (pc = "loop" /\ drawCount > 0) => (drawAgain <=> ~Quit)
    /\ (pc = "loop" /\ ~drawAgain) => ~ENABLED Draw
    /\ (pc = "loop" /\ drawCount > 0 /\ ~Quit /\ drawValuesList # <<>>) => ENABLED Draw
    /\ (pc = "done" /\ ~drawAgain) =>
          /\ Quit
          /\ Len(stdout) = drawCount + 1
          /\ Len(drawValuesList) = Len(Pool) - drawCount
          /\ LET shown == ShownEntries
             IN  \A j \in 1..Len(drawValuesList) : Shown(drawValuesList[j]) \notin shown

\* Q entered after the second draw, with entries left in the pool
C5_Witness ==
    /\ pc = "done" /\ ~drawAgain /\ userInput = "Q"
    /\ drawCount = 2 /\ drawValuesList # <<>>

\* C6 as claimed: a run that ends with the pool empty has shown the notice
\* that all the values have been drawn, also when q was entered at the
\* prompt after the last value.
C6_NoticeWhenEmpty ==
    (pc = "done" /\ drawValuesList = <<>>) => NoticeShown

\* C6: a run ends with the notice as its last line exactly when the pool is
\* empty and the input after the last value was not q or Q; q or Q after
\* the last value ends the run without the notice.
C6_NoticeUnlessQuit ==
    pc = "done" =>
        /\ NoticeShown <=> (drawValuesList = <<>> /\ ~Quit)
        /\ NoticeShown => /\ stdout[Len(stdout)] = AllDrawnMsg
                          /\ Len(stdout) = drawCount + 2

\* q entered after the last value of the pool: the run ends without notice
C6_Witness ==
    /\ pc = "done" /\ drawValuesList = <<>> /\ userInput = "q"
    /\ drawCount = Len(Pool) /\ ~NoticeShown

====
